---- MODULE Spec2Model ----
(***************************************************************************)
(* A model of the open-chained intrusive hash map of                       *)
(* src/modified_tree_bitmap/hmap.c: table lifecycle, the capacity planner  *)
(* calc_mask, the resize engine, the relocation fix-ups and the position   *)
(* cursor hmap_at_position.                                                *)
(*                                                                         *)
(* Memory is modelled explicitly.  A node address is a number of Addrs;    *)
(* NULL is 0.  A bucket array is either the inline slot 'one' of a table   *)
(* (pointer [tab |-> t, blk |-> 0]) or a heap block (pointer               *)
(* [tab |-> "heap", blk |-> b]).  The code's functions are operators from  *)
(* a memory record [hmaps, heap, nodes, aborted] to a memory record, and   *)
(* every action applies one public function to the current memory.         *)
(***************************************************************************)
EXTENDS Integers, Sequences, FiniteSets, TLC

\* ------------------------------------------------------------- bounds
MaxNodes == 2        \* nodes the client keeps in its tables at one time
MaxReserve == 8      \* hmap_reserve targets are drawn from 0..MaxReserve
WordBits == 8        \* width of size_t, scaled down from 64
CursorBits == 3      \* width of the cursor's uint32_t, scaled down from 32

NULL == 0
\* One address more than the client has nodes, so that a node can move.
Addrs == 1 .. (MaxNodes + 1)
\* The hashes the client files nodes under: 0 and 7 share bucket 0 under mask
\* 0 and lie in buckets 0 and 3 under mask 3, in buckets 0 and 7 under mask 7.
Hashes == {0, 7}
Tables == {"a", "b"}
\* Heap blocks for bucket arrays: one per table and one for resize's tmp.
Blocks == 1 .. (Cardinality(Tables) + 1)

VARIABLES
    hmaps,     \* table -> struct hmap: [buckets, one, mask, n]
    heap,      \* block -> the bucket array stored in it, <<>> when not allocated
    nodes,     \* address -> struct hmap_node: [hash, next]
    aborted,   \* the process has aborted (failed assertion or xmalloc, invalid free)
    pos,       \* the caller's position cursor: [bucket, offset]
    trav,      \* nodes hmap_at_position returned in the traversal under way
    full,      \* results of the last (at most two) completed traversals
    clean,     \* no mutation since the traversal under way left (0,0)
    stay,      \* nodes in the table ever since the traversal under way began
    ok,        \* no mutation of the cursor's bucket, or of mask, in that traversal
    dead,      \* tables destroyed and not initialised again
    cap,       \* capacity-planner specification: the element count given
    plan       \* capacity-planner specification: <<calc_mask(cap)>> once computed

\* ------------------------------------------------------ integer helpers
RECURSIVE BitAnd(_, _)
BitAnd(x, y) ==
    IF x = 0 \/ y = 0 THEN 0
    ELSE (x % 2) * (y % 2) + 2 * BitAnd(x \div 2, y \div 2)

RECURSIVE BitOr(_, _)
BitOr(x, y) ==
    IF x = 0 THEN y
    ELSE IF y = 0 THEN x
    ELSE (IF x % 2 = 1 \/ y % 2 = 1 THEN 1 ELSE 0) + 2 * BitOr(x \div 2, y \div 2)

RECURSIVE Shr(_, _)
Shr(x, k) == IF k = 0 \/ x = 0 THEN x ELSE Shr(x \div 2, k - 1)

\* ------------------------------------------------------------- memory
InlinePtr(t) == [tab |-> t, blk |-> 0]
HeapPtr(b) == [tab |-> "heap", blk |-> b]

\* An address that holds no node of any table.  Its fields carry no
\* information; the model marks it by a next field naming the address itself,
\* which no node of a chain has.
FreeAt(a) == [hash |-> 0, next |-> a]

\* The memory the functions work on.
St == [hmaps |-> hmaps, heap |-> heap, nodes |-> nodes, aborted |-> aborted]

\* p[i] for a bucket-array pointer p.  An access outside the storage p names
\* (never made by the code in a reachable state) reads NULL.
ReadSlot(s, p, i) ==
    IF p.tab = "heap"
    THEN IF i + 1 \in DOMAIN s.heap[p.blk] THEN s.heap[p.blk][i + 1] ELSE NULL
    ELSE IF p.tab \in DOMAIN s.hmaps /\ i = 0 THEN s.hmaps[p.tab].one ELSE NULL

\* p[i] = v
WriteSlot(s, p, i, v) ==
    IF p.tab = "heap"
    THEN IF i + 1 \in DOMAIN s.heap[p.blk]
         THEN [s EXCEPT !.heap[p.blk][i + 1] = v] ELSE s
    ELSE IF p.tab \in DOMAIN s.hmaps /\ i = 0
         THEN [s EXCEPT !.hmaps[p.tab].one = v] ELSE s

\* The chain starting at node a, following next links (at most k nodes).
RECURSIVE ChainFrom(_, _, _)
ChainFrom(s, a, k) ==
    IF a = NULL \/ k = 0 THEN <<>>
    ELSE <<a>> \o ChainFrom(s, s.nodes[a].next, k - 1)

\* The chain of bucket i of table t.
Chain(s, t, i) == ChainFrom(s, ReadSlot(s, s.hmaps[t].buckets, i), MaxNodes + 1)

Range(q) == {q[i] : i \in DOMAIN q}

\* The nodes reachable by walking every bucket chain of table t.
NodesOf(s, t) == UNION {Range(Chain(s, t, i)) : i \in 0 .. s.hmaps[t].mask}

\* The addresses that hold a node of some table.
LiveIn(s) == {a \in Addrs : s.nodes[a] # FreeAt(a)}

\* Node a is found by hashing and walking its bucket chain in table t.
InTable(s, t, a) ==
    /\ s.nodes[a] # FreeAt(a)
    /\ a \in Range(Chain(s, t, BitAnd(s.nodes[a].hash, s.hmaps[t].mask)))

\* The number of nodes met when walking every bucket chain of table t.
RECURSIVE CountFrom(_, _, _)
CountFrom(s, t, i) ==
    IF i > s.hmaps[t].mask THEN 0
    ELSE Len(Chain(s, t, i)) + CountFrom(s, t, i + 1)

\* ---------------------------------------------------- table lifecycle
hmap_init(s, t) ==
    [s EXCEPT !.hmaps[t] =
        [buckets |-> InlinePtr(t), one |-> NULL, mask |-> 0, n |-> 0]]

\* free(p).  Freeing what is not a live allocation (an inline slot, an array
\* already freed) is undefined; the model records it as a fault in aborted.
free(s, p) ==
    IF p.tab = "heap" /\ s.heap[p.blk] # <<>>
    THEN [s EXCEPT !.heap[p.blk] = <<>>]
    ELSE [s EXCEPT !.aborted = TRUE]

\* hmap_destroy without the test for the inline slot.
hmap_destroy_unguarded(s, t) == free(s, s.hmaps[t].buckets)

hmap_destroy(s, t) ==
    IF s.hmaps[t].buckets # InlinePtr(t) THEN free(s, s.hmaps[t].buckets) ELSE s

\* memset(p, 0, len * sizeof *p)
RECURSIVE memset0(_, _, _, _)
memset0(s, p, i, len) ==
    IF i >= len THEN s ELSE memset0(WriteSlot(s, p, i, NULL), p, i + 1, len)

\* hmap_clear without 'hmap->n = 0': the bucket slots are cleared, the count is not.
hmap_clear_keeps_n(s, t) ==
    IF s.hmaps[t].n > 0
    THEN memset0(s, s.hmaps[t].buckets, 0, s.hmaps[t].mask + 1)
    ELSE s

\* hmap_clear with a memset of mask slots for mask + 1.
hmap_clear_short(s, t) ==
    IF s.hmaps[t].n > 0
    THEN LET s1 == [s EXCEPT !.hmaps[t].n = 0]
         IN  memset0(s1, s1.hmaps[t].buckets, 0, s1.hmaps[t].mask)
    ELSE s

hmap_clear(s, t) ==
    IF s.hmaps[t].n > 0
    THEN LET s1 == [s EXCEPT !.hmaps[t].n = 0]
         IN  memset0(s1, s1.hmaps[t].buckets, 0, s1.hmaps[t].mask + 1)
    ELSE s

\* hmap_moved doing nothing.
hmap_moved_noop(s, t) == s

hmap_moved(s, t) ==
    IF s.hmaps[t].mask = 0
    THEN [s EXCEPT !.hmaps[t].buckets = InlinePtr(t)]
    ELSE s

\* hmap_swap as a plain exchange of the two structs, without hmap_moved.
hmap_swap_no_fixup(s, a, b) ==
    LET tmp == s.hmaps[a]
        s1 == [s EXCEPT !.hmaps[a] = s.hmaps[b]]
    IN  [s1 EXCEPT !.hmaps[b] = tmp]

hmap_swap(s, a, b) ==
    LET tmp == s.hmaps[a]
        s1 == [s EXCEPT !.hmaps[a] = s.hmaps[b]]
        s2 == [s1 EXCEPT !.hmaps[b] = tmp]
    IN  hmap_moved(hmap_moved(s2, a), b)

\* ------------------------------------------- chain primitives (hmap.h)
\* Thread node onto the head of bucket hash & mask and count it.
hmap_insert_fast(s, t, node, hash) ==
    LET h == s.hmaps[t]
        idx == BitAnd(hash, h.mask)
        s1 == [s EXCEPT !.nodes[node] =
                  [hash |-> hash, next |-> ReadSlot(s, h.buckets, idx)]]
        s2 == WriteSlot(s1, h.buckets, idx, node)
    IN  [s2 EXCEPT !.hmaps[t].n = @ + 1]

\* A reference to a pointer cell: bucket slot p[idx] (node = NULL) or the next
\* field of a node.
SlotRef(p, i) == [node |-> NULL, ptr |-> p, idx |-> i]
NextRef(a) == [node |-> a, ptr |-> InlinePtr("none"), idx |-> 0]

Deref(s, r) ==
    IF r.node = NULL THEN ReadSlot(s, r.ptr, r.idx) ELSE s.nodes[r.node].next

Store(s, r, v) ==
    IF r.node = NULL THEN WriteSlot(s, r.ptr, r.idx, v)
    ELSE [s EXCEPT !.nodes[r.node].next = v]

\* The cell, reached from cell r by following next fields, that holds target;
\* NextRef(NULL) when the walk reaches the end of the chain first.
RECURSIVE FindRef(_, _, _, _)
FindRef(s, r, target, k) ==
    IF Deref(s, r) = target THEN r
    ELSE IF Deref(s, r) = NULL \/ k = 0 THEN NextRef(NULL)
    ELSE FindRef(s, NextRef(Deref(s, r)), target, k - 1)

\* Unlink node from its bucket chain and uncount it.
hmap_remove(s, t, node) ==
    LET h == s.hmaps[t]
        r == FindRef(s, SlotRef(h.buckets, BitAnd(s.nodes[node].hash, h.mask)),
                     node, MaxNodes + 1)
        s1 == Store(s, r, s.nodes[node].next)
    IN  [s1 EXCEPT !.hmaps[t].n = @ - 1]

\* The client owns node memory: the nodes of set gone, which have left their
\* table, hold no node any more.
Release(s, gone) ==
    [s EXCEPT !.nodes =
        [a \in Addrs |-> IF a \in gone THEN FreeAt(a) ELSE s.nodes[a]]]

\* ------------------------------------------------------ resize engine
\* xmalloc: the lowest free block; allocation failure aborts the process.
HasFree(s) == \E b \in Blocks : s.heap[b] = <<>>
xmalloc(s) == CHOOSE b \in Blocks :
                 s.heap[b] = <<>> /\ \A c \in Blocks : s.heap[c] = <<>> => b <= c

\* The two assertions on entry to resize.
ResizeAsserts(new_mask) ==
    /\ BitAnd(new_mask, new_mask + 1) = 0
    /\ new_mask # 2 ^ WordBits - 1

\* The migration loop filing each node under its old bucket index,
\* hash & hmap->mask, instead of hash & tmp.mask.
RECURSIVE resize_chain_old_index(_, _, _)
resize_chain_old_index(s, t, node) ==
    IF node = NULL THEN s
    ELSE LET next == s.nodes[node].next
             tb == s.hmaps["tmp"].buckets
             idx == BitAnd(s.nodes[node].hash, s.hmaps[t].mask)
             s1 == [s EXCEPT !.nodes[node].next = ReadSlot(s, tb, idx)]
             s2 == WriteSlot(s1, tb, idx, node)
         IN  resize_chain_old_index([s2 EXCEPT !.hmaps["tmp"].n = @ + 1], t, next)

\* for (node = hmap->buckets[i]; node; node = next): file node in tmp.
RECURSIVE resize_chain(_, _, _)
resize_chain(s, t, node) ==
    IF node = NULL THEN s
    ELSE LET next == s.nodes[node].next
         IN  resize_chain(hmap_insert_fast(s, "tmp", node, s.nodes[node].hash),
                          t, next)

\* The outer loop with 'i < hmap->mask' for 'i <= hmap->mask'.
RECURSIVE resize_loop_short(_, _, _)
resize_loop_short(s, t, i) ==
    IF i >= s.hmaps[t].mask THEN s
    ELSE resize_loop_short(resize_chain(s, t, ReadSlot(s, s.hmaps[t].buckets, i)),
                           t, i + 1)

\* for (i = 0; i <= hmap->mask; i++) ...
RECURSIVE resize_loop(_, _, _)
resize_loop(s, t, i) ==
    IF i > s.hmaps[t].mask THEN s
    ELSE resize_loop(resize_chain(s, t, ReadSlot(s, s.hmaps[t].buckets, i)),
                     t, i + 1)

\* The allocation storing the bucket count, new_mask + 1, as tmp.mask.
resize_alloc_count(s, new_mask) ==
    LET s1 == hmap_init(s, "tmp")
    IN  IF new_mask # 0
        THEN LET b == xmalloc(s1)
             IN  [s1 EXCEPT !.heap[b] = [i \in 1 .. new_mask + 1 |-> NULL],
                            !.hmaps["tmp"].buckets = HeapPtr(b),
                            !.hmaps["tmp"].mask = new_mask + 1]
        ELSE s1

\* hmap_init(&tmp); if (new_mask) { allocate and clear new_mask + 1 slots }
resize_alloc(s, new_mask) ==
    LET s1 == hmap_init(s, "tmp")
    IN  IF new_mask # 0
        THEN LET b == xmalloc(s1)
             IN  [s1 EXCEPT !.heap[b] = [i \in 1 .. new_mask + 1 |-> NULL],
                            !.hmaps["tmp"].buckets = HeapPtr(b),
                            !.hmaps["tmp"].mask = new_mask]
        ELSE s1

\* The memory with resize's local 'struct hmap tmp' in scope.
EnterTmp(s) ==
    [s EXCEPT !.hmaps =
        [u \in DOMAIN s.hmaps \cup {"tmp"} |->
            IF u \in DOMAIN s.hmaps THEN s.hmaps[u]
            ELSE [buckets |-> InlinePtr("tmp"), one |-> NULL, mask |-> 0, n |-> 0]]]

\* ... and with it out of scope again.
LeaveTmp(s) ==
    [s EXCEPT !.hmaps = [u \in DOMAIN s.hmaps \ {"tmp"} |-> s.hmaps[u]]]

resize(s, t, new_mask) ==
    IF ~ResizeAsserts(new_mask) \/ (new_mask # 0 /\ ~HasFree(s))
    THEN [s EXCEPT !.aborted = TRUE]
    ELSE LET s2 == resize_alloc(EnterTmp(s), new_mask)
             s3 == resize_loop(s2, t, 0)
             s4 == hmap_swap(s3, t, "tmp")
             s5 == hmap_destroy(s4, "tmp")
         IN  LeaveTmp(s5)

\* calc_mask without the final 'mask |= (mask & 1) << 1'.
calc_mask_no_floor(capacity) ==
    LET m0 == capacity \div 2
        m1 == BitOr(m0, Shr(m0, 1))
        m2 == BitOr(m1, Shr(m1, 2))
        m3 == BitOr(m2, Shr(m2, 4))
        m4 == BitOr(m3, Shr(m3, 8))
        m5 == BitOr(m4, Shr(m4, 16))
    IN  BitOr(m5, Shr(m5, 32))

\* calc_mask starting from capacity, not capacity / 2.
calc_mask_no_halving(capacity) ==
    LET m0 == capacity
        m1 == BitOr(m0, Shr(m0, 1))
        m2 == BitOr(m1, Shr(m1, 2))
        m3 == BitOr(m2, Shr(m2, 4))
        m4 == BitOr(m3, Shr(m3, 8))
        m5 == BitOr(m4, Shr(m4, 16))
        m6 == BitOr(m5, Shr(m5, 32))
    IN  BitOr(m6, (BitAnd(m6, 1) * 2) % (2 ^ WordBits))

calc_mask(capacity) ==
    LET m0 == capacity \div 2
        m1 == BitOr(m0, Shr(m0, 1))
        m2 == BitOr(m1, Shr(m1, 2))
        m3 == BitOr(m2, Shr(m2, 4))
        m4 == BitOr(m3, Shr(m3, 8))
        m5 == BitOr(m4, Shr(m4, 16))
        m6 == BitOr(m5, Shr(m5, 32))
    IN  BitOr(m6, (BitAnd(m6, 1) * 2) % (2 ^ WordBits))

\* hmap_expand with 'new_mask >= hmap->mask' for 'new_mask > hmap->mask'.
hmap_expand_ge(s, t) ==
    LET new_mask == calc_mask(s.hmaps[t].n)
    IN  IF new_mask >= s.hmaps[t].mask THEN resize(s, t, new_mask) ELSE s

hmap_expand(s, t) ==
    LET new_mask == calc_mask(s.hmaps[t].n)
    IN  IF new_mask > s.hmaps[t].mask THEN resize(s, t, new_mask) ELSE s

\* hmap_shrink with 'new_mask <= hmap->mask' for 'new_mask < hmap->mask'.
hmap_shrink_le(s, t) ==
    LET new_mask == calc_mask(s.hmaps[t].n)
    IN  IF new_mask <= s.hmaps[t].mask THEN resize(s, t, new_mask) ELSE s

hmap_shrink(s, t) ==
    LET new_mask == calc_mask(s.hmaps[t].n)
    IN  IF new_mask < s.hmaps[t].mask THEN resize(s, t, new_mask) ELSE s

\* hmap_reserve planning for the table's own count, as hmap_expand does.
hmap_reserve_own_n(s, t, n) ==
    LET new_mask == calc_mask(s.hmaps[t].n)
    IN  IF new_mask > s.hmaps[t].mask THEN resize(s, t, new_mask) ELSE s

hmap_reserve(s, t, n) ==
    LET new_mask == calc_mask(n)
    IN  IF new_mask > s.hmaps[t].mask THEN resize(s, t, new_mask) ELSE s

\* -------------------------------------------------- relocation tracker
\* hmap_node_moved without the walk: the bucket head is overwritten.
hmap_node_moved_head(s, t, old_node, node) ==
    LET h == s.hmaps[t]
    IN  Store(s, SlotRef(h.buckets, BitAnd(s.nodes[node].hash, h.mask)), node)

\* A walk that the end of the chain does not stop: reading through a null
\* pointer yields null again.
RECURSIVE walk_past_null(_, _, _, _)
walk_past_null(s, r, target, k) ==
    IF r.node # NULL \/ r.ptr.tab # "none"
    THEN IF Deref(s, r) = target THEN [end |-> "found", steps |-> 0]
         ELSE IF k = 0 THEN [end |-> "walking", steps |-> 0]
         ELSE LET w == walk_past_null(s, NextRef(Deref(s, r)), target, k - 1)
              IN  [end |-> w.end, steps |-> w.steps + 1]
    ELSE [end |-> "walking", steps |-> k]

\* while (*bucket != old_node) bucket = &(*bucket)->next; from cell r, for at
\* most k steps.  end is "found" when the loop has left with *bucket ==
\* old_node, "null" when *bucket is NULL and is not old_node, so that the next
\* step reads through a null pointer (undefined behaviour), and "walking"
\* when k steps did not end the walk; steps is the number of steps taken.
RECURSIVE walk(_, _, _, _)
walk(s, r, target, k) ==
    IF Deref(s, r) = target THEN [end |-> "found", steps |-> 0]
    ELSE IF Deref(s, r) = NULL THEN [end |-> "null", steps |-> 0]
    ELSE IF k = 0 THEN [end |-> "walking", steps |-> 0]
    ELSE LET w == walk(s, NextRef(Deref(s, r)), target, k - 1)
         IN  [end |-> w.end, steps |-> w.steps + 1]

hmap_node_moved(s, t, old_node, node) ==
    LET h == s.hmaps[t]
        r == FindRef(s, SlotRef(h.buckets, BitAnd(s.nodes[node].hash, h.mask)),
                     old_node, MaxNodes + 1)
    IN  IF r = NextRef(NULL) THEN [s EXCEPT !.aborted = TRUE]
        ELSE Store(s, r, node)

\* The client moves the node at address old to address new (realloc).
MoveNode(s, old, new) ==
    [s EXCEPT !.nodes[new] = s.nodes[old], !.nodes[old] = FreeAt(old)]


\* ----------------------------------------------------- position cursor
NoNode == [node |-> NULL, bucket |-> 0, offset |-> 0]

\* The conversion of a size_t to the uint32_t that *bucketp and *offsetp are.
to_uint32(x) == x % (2 ^ CursorBits)

\* The inner loop without the else branch: the cursor is left in the node's
\* bucket, at the next offset, also when the node is the last of its chain.
RECURSIVE at_chain_no_advance(_, _, _, _, _)
at_chain_no_advance(s, t, node, n_idx, offset) ==
    IF node = NULL THEN NoNode
    ELSE IF n_idx = offset
         THEN [node |-> node,
               bucket |-> to_uint32(BitAnd(s.nodes[node].hash, s.hmaps[t].mask)),
               offset |-> to_uint32(offset + 1)]
         ELSE at_chain_no_advance(s, t, s.nodes[node].next, n_idx + 1, offset)

\* The inner loop: walk the chain from node, which is at index n_idx.
RECURSIVE at_chain(_, _, _, _, _)
at_chain(s, t, node, n_idx, offset) ==
    IF node = NULL THEN NoNode
    ELSE IF n_idx = offset
         THEN IF s.nodes[node].next # NULL
              THEN [node |-> node,
                    bucket |-> to_uint32(BitAnd(s.nodes[node].hash, s.hmaps[t].mask)),
                    offset |-> to_uint32(offset + 1)]
              ELSE [node |-> node,
                    bucket |-> to_uint32(BitAnd(s.nodes[node].hash, s.hmaps[t].mask) + 1),
                    offset |-> 0]
         ELSE at_chain(s, t, s.nodes[node].next, n_idx + 1, offset)

\* The outer loop, from bucket b_idx on.
RECURSIVE at_bucket(_, _, _, _)
at_bucket(s, t, b_idx, offset) ==
    IF b_idx > s.hmaps[t].mask THEN NoNode
    ELSE LET r == at_chain(s, t, ReadSlot(s, s.hmaps[t].buckets, b_idx), 0, offset)
         IN  IF r.node # NULL THEN r ELSE at_bucket(s, t, b_idx + 1, 0)

\* The node returned and the values stored into *bucketp and *offsetp.
hmap_at_position(s, t, bucket, offset) == at_bucket(s, t, bucket, offset)

\* ---------------------------------------------------------- actions
StartPos == [bucket |-> 0, offset |-> 0]

\* What a call that changed memory does to the traversal under way: the
\* results of completed traversals no longer describe the table, and a
\* traversal that has left (0,0) is no longer one without mutation.
Mutated ==
    /\ pos' = pos
    /\ trav' = <<>>
    /\ full' = <<>>
    /\ clean' = (clean /\ pos = StartPos /\ trav = <<>>)

\* The memory after a call is r.
Apply(r) ==
    /\ hmaps' = r.hmaps
    /\ heap' = r.heap
    /\ nodes' = r.nodes
    /\ aborted' = r.aborted
    /\ IF r = St THEN UNCHANGED <<pos, trav, full, clean>> ELSE Mutated
    /\ UNCHANGED <<stay, ok, dead, cap, plan>>

Live == LiveIn(St)

InitMemory ==
    /\ hmaps = [t \in Tables |->
                   [buckets |-> InlinePtr(t), one |-> NULL, mask |-> 0, n |-> 0]]
    /\ heap = [b \in Blocks |-> <<>>]
    /\ nodes = [a \in Addrs |-> FreeAt(a)]
    /\ aborted = FALSE
    /\ pos = StartPos
    /\ trav = <<>>
    /\ full = <<>>
    /\ clean = TRUE
    /\ stay = {}
    /\ ok = TRUE
    /\ dead = {}

Init == InitMemory /\ cap = 0 /\ plan = <<>>

\* The client files a node of its own, which is in no table, under hash h.
Insert(t, a, h) ==
    /\ ~aborted
    /\ a \notin Live
    /\ Cardinality(Live) < MaxNodes
    /\ Apply(hmap_insert_fast(St, t, a, h))

Remove(t, a) ==
    /\ ~aborted
    /\ InTable(St, t, a)
    /\ Apply(Release(hmap_remove(St, t, a), {a}))

Expand(t) == ~aborted /\ Apply(hmap_expand(St, t))

Shrink(t) == ~aborted /\ Apply(hmap_shrink(St, t))

Reserve(t, n) == ~aborted /\ Apply(hmap_reserve(St, t, n))

Clear(t) == ~aborted /\ Apply(Release(hmap_clear(St, t), NodesOf(St, t)))

Swap(a, b) == ~aborted /\ a # b /\ Apply(hmap_swap(St, a, b))

\* The client moves a node of table t to a free address and tells the table.
NodeMoved(t, old, new) ==
    /\ ~aborted
    /\ InTable(St, t, old)
    /\ new \notin Live
    /\ Apply(hmap_node_moved(MoveNode(St, old, new), t, old, new))

\* One call of hmap_at_position with the caller's cursor.  trav records the
\* nodes returned since (0,0), up to one more than the table holds.
AtPosition(t) ==
    /\ ~aborted
    /\ LET r == hmap_at_position(St, t, pos.bucket, pos.offset)
       IN  /\ pos' = [bucket |-> r.bucket, offset |-> r.offset]
           /\ IF r.node # NULL
              THEN /\ trav' = IF ~clean THEN <<>>
                              ELSE IF Len(trav) <= hmaps[t].n
                                   THEN Append(trav, r.node)
                                   ELSE trav
                   /\ UNCHANGED <<full, clean>>
              ELSE /\ trav' = <<>>
                   /\ full' = IF ~clean THEN <<>>
                              ELSE IF Len(full) < 2 THEN Append(full, trav)
                              ELSE <<full[2], trav>>
                   /\ clean' = TRUE
    /\ UNCHANGED <<hmaps, heap, nodes, aborted, stay, ok, dead, cap, plan>>

\* The capacity planner applied to the count drawn in InitPlan.
Plan ==
    /\ plan = <<>>
    /\ plan' = <<calc_mask(cap)>>
    /\ UNCHANGED <<hmaps, heap, nodes, aborted, pos, trav, full, clean,
                   stay, ok, dead, cap>>

vars == <<hmaps, heap, nodes, aborted, pos, trav, full, clean,
          stay, ok, dead, cap, plan>>

\* Two tables under every mutating operation.
Next ==
    \/ \E t \in Tables, a \in Addrs, h \in Hashes : Insert(t, a, h)
    \/ \E t \in Tables, a \in Addrs : Remove(t, a)
    \/ \E t \in Tables : Expand(t)
    \/ \E t \in Tables : Shrink(t)
    \/ \E t \in Tables, n \in 0 .. MaxReserve : Reserve(t, n)
    \/ \E t \in Tables : Clear(t)
    \/ \E a, b \in Tables : Swap(a, b)
    \/ \E t \in Tables, old, new \in Addrs : NodeMoved(t, old, new)

Spec == Init /\ [][Next]_vars

\* One table under mutation and a position cursor walking it.
NextIter ==
    \/ \E a \in Addrs, h \in Hashes : Insert("a", a, h)
    \/ \E a \in Addrs : Remove("a", a)
    \/ Expand("a")
    \/ Shrink("a")
    \/ \E n \in 0 .. MaxReserve : Reserve("a", n)
    \/ Clear("a")
    \/ \E old, new \in Addrs : NodeMoved("a", old, new)
    \/ AtPosition("a")

SpecIter == Init /\ [][NextIter]_vars

\* The struct of table a is moved (realloc, memcpy) to location b, which holds
\* no table's data, and hmap_moved is called on it there.  The location left
\* behind is given a fresh table by hmap_init.
Fresh(t) == [buckets |-> InlinePtr(t), one |-> NULL, mask |-> 0, n |-> 0]

relocate(s, a, b) ==
    hmap_init(hmap_moved([s EXCEPT !.hmaps[b] = s.hmaps[a]], b), a)

Relocate(a, b) ==
    /\ ~aborted
    /\ a # b
    /\ hmaps[b] = Fresh(b)
    /\ Apply(relocate(St, a, b))

\* Two tables under every mutating operation and relocation of the structs.
NextMove ==
    \/ Next
    \/ \E a, b \in Tables : Relocate(a, b)

SpecMove == Init /\ [][NextMove]_vars

\* The client destroys table t, whose nodes it frees, and uses it no more
\* until it has initialised it again.
Destroy(t) ==
    /\ ~aborted
    /\ t \notin dead
    /\ LET r == Release(hmap_destroy(St, t), NodesOf(St, t))
       IN  /\ hmaps' = r.hmaps
           /\ heap' = r.heap
           /\ nodes' = r.nodes
           /\ aborted' = r.aborted
    /\ dead' = dead \cup {t}
    /\ UNCHANGED <<pos, trav, full, clean, stay, ok, cap, plan>>

InitTable(t) ==
    /\ ~aborted
    /\ t \in dead
    /\ LET r == hmap_init(St, t)
       IN  /\ hmaps' = r.hmaps
           /\ heap' = r.heap
           /\ nodes' = r.nodes
           /\ aborted' = r.aborted
    /\ dead' = dead \ {t}
    /\ UNCHANGED <<pos, trav, full, clean, stay, ok, cap, plan>>

\* Two tables through their whole lifecycle: initialised, filled, resized,
\* destroyed and initialised again.
NextOwn ==
    \/ \E t \in Tables \ dead, a \in Addrs, h \in Hashes : Insert(t, a, h)
    \/ \E t \in Tables \ dead, a \in Addrs : Remove(t, a)
    \/ \E t \in Tables \ dead : Expand(t)
    \/ \E t \in Tables \ dead : Shrink(t)
    \/ \E t \in Tables \ dead, n \in 0 .. MaxReserve : Reserve(t, n)
    \/ \E t \in Tables : Destroy(t)
    \/ \E t \in Tables : InitTable(t)

SpecOwn == Init /\ [][NextOwn]_vars

\* A mutation of table "a", leaving memory r, between two calls of
\* hmap_at_position.  touched: it changed the chain of the bucket the cursor
\* names, or the mask.  While no call has been made from (0,0) the traversal
\* begins after the mutation.
Track(r, touched) ==
    /\ hmaps' = r.hmaps
    /\ heap' = r.heap
    /\ nodes' = r.nodes
    /\ aborted' = r.aborted
    /\ pos' = pos
    /\ IF pos = StartPos /\ trav = <<>>
       THEN /\ stay' = NodesOf(r, "a")
            /\ ok' = TRUE
            /\ trav' = <<>>
       ELSE /\ ok' = (ok /\ ~touched)
            /\ stay' = IF ok' THEN stay \cap NodesOf(r, "a") ELSE {}
            /\ trav' = IF ok' THEN trav ELSE <<>>
    /\ UNCHANGED <<full, clean, dead, cap, plan>>

WalkInsert(a, h) ==
    /\ ~aborted
    /\ a \notin Live
    /\ Cardinality(Live) < MaxNodes
    /\ Track(hmap_insert_fast(St, "a", a, h),
             BitAnd(h, hmaps["a"].mask) = pos.bucket)

WalkRemove(a) ==
    /\ ~aborted
    /\ InTable(St, "a", a)
    /\ Track(Release(hmap_remove(St, "a", a), {a}),
             BitAnd(nodes[a].hash, hmaps["a"].mask) = pos.bucket)

WalkReserve(n) ==
    /\ ~aborted
    /\ LET r == hmap_reserve(St, "a", n) IN Track(r, r # St)

WalkShrink ==
    /\ ~aborted
    /\ LET r == hmap_shrink(St, "a") IN Track(r, r # St)

\* One call of hmap_at_position in a traversal that mutations interleave.
\* trav records the nodes returned, up to one more than a traversal can
\* return when the cursor only moves forward.
WalkNext ==
    /\ ~aborted
    /\ LET r == hmap_at_position(St, "a", pos.bucket, pos.offset)
       IN  /\ pos' = [bucket |-> r.bucket, offset |-> r.offset]
           /\ IF r.node # NULL
              THEN /\ trav' = IF ok /\ Len(trav) <= 2 * MaxNodes
                              THEN Append(trav, r.node) ELSE trav
                   /\ UNCHANGED <<stay, ok>>
              ELSE /\ trav' = <<>>
                   /\ stay' = NodesOf(St, "a")
                   /\ ok' = TRUE
    /\ UNCHANGED <<hmaps, heap, nodes, aborted, full, clean, dead, cap, plan>>

\* One table whose chains change between the calls of a cursor traversal.
NextWalk ==
    \/ \E a \in Addrs, h \in Hashes : WalkInsert(a, h)
    \/ \E a \in Addrs : WalkRemove(a)
    \/ \E n \in 0 .. MaxReserve : WalkReserve(n)
    \/ WalkShrink
    \/ WalkNext

SpecWalk == Init /\ [][NextWalk]_vars

\* The capacity planner on every count of the word width.
InitPlan == InitMemory /\ cap \in 0 .. (2 ^ WordBits - 1) /\ plan = <<>>

NextPlan == Plan

SpecPlan == InitPlan /\ [][NextPlan]_vars

\* ------------------------------------------------------- properties
\* C1: in every reachable state, the n field of each table equals the number
\* of nodes met when walking the chains of all its mask + 1 buckets.
C1_CountMatchesChains ==
    \A t \in Tables : hmaps[t].n = CountFrom(St, t, 0)

\* A table resized to more than one bucket that holds a chain of two nodes.
C1_Witness ==
    \E t \in Tables :
        /\ hmaps[t].mask > 0
        /\ hmaps[t].n = 2
        /\ \E i \in 0 .. hmaps[t].mask : Len(Chain(St, t, i)) = 2

\* C2: in every reachable state (so also right after every resize), each node
\* of a table lies in the chain of bucket hash & mask, once, and in no other
\* bucket's chain.
C2_NodesInOwnBucket ==
    \A t \in Tables : \A i \in 0 .. hmaps[t].mask :
        LET c == Chain(St, t, i)
        IN  /\ \A k \in DOMAIN c : BitAnd(nodes[c[k]].hash, hmaps[t].mask) = i
            /\ \A k, l \in DOMAIN c : c[k] = c[l] => k = l
            /\ \A j \in 0 .. hmaps[t].mask :
                  j # i => Range(c) \cap Range(Chain(St, t, j)) = {}

\* A table of four buckets where a node of hash 7 is filed in bucket 3, and
\* one of eight buckets where it is filed in bucket 7.
C2_Witness ==
    \E t, u \in Tables :
        /\ hmaps[t].mask = 3
        /\ \E x \in Range(Chain(St, t, 3)) : nodes[x].hash = 7
        /\ hmaps[u].mask = 7
        /\ \E x \in Range(Chain(St, u, 7)) : nodes[x].hash = 7

\* What a resize of table t, taking memory s to s2, must keep: the set of
\* nodes, each once, the count, every hash field, and all that belongs to the
\* other tables or to no table.
ResizeKeeps(s, s2, t) ==
    /\ s2.aborted = s.aborted
    /\ NodesOf(s2, t) = NodesOf(s, t)
    /\ CountFrom(s2, t, 0) = CountFrom(s, t, 0)
    /\ s2.hmaps[t].n = s.hmaps[t].n
    /\ \A x \in Addrs : s2.nodes[x].hash = s.nodes[x].hash
    /\ \A x \in Addrs \ NodesOf(s, t) : s2.nodes[x] = s.nodes[x]
    /\ \A u \in Tables \ {t} :
          /\ s2.hmaps[u] = s.hmaps[u]
          /\ \A i \in 0 .. s.hmaps[u].mask : Chain(s2, u, i) = Chain(s, u, i)

\* The memories hmap_expand, hmap_shrink and hmap_reserve (of every target)
\* leave when called on table t.
Resized(t) ==
    {hmap_expand(St, t), hmap_shrink(St, t)}
        \cup {hmap_reserve(St, t, k) : k \in 0 .. MaxReserve}

\* C3: in every reachable state, the resize done by hmap_expand, hmap_shrink
\* or hmap_reserve keeps the table's nodes (none lost, none duplicated), n and
\* every node's hash; mask, bucket array and next links are all that changes.
C3_ResizePreserves ==
    \A t \in Tables : \A s2 \in Resized(t) : s2 # St => ResizeKeeps(St, s2, t)

\* Two nodes in different buckets of an eight-bucket table that hmap_shrink
\* rebuilds with four buckets, beside one that hmap_expand grows from the
\* inline slot.
C3_Witness ==
    \E t \in Tables :
        /\ hmaps[t].mask = 7
        /\ hmaps[t].n = 2
        /\ Len(Chain(St, t, 0)) = 1
        /\ Len(Chain(St, t, 7)) = 1
        /\ hmap_shrink(St, t).hmaps[t].mask = 3
        /\ hmap_shrink(St, t).hmaps[t].buckets # hmaps[t].buckets

\* C4: in every reachable state, mask is 0 or mask + 1 is a power of two.
C4_MaskPow2 ==
    \A t \in Tables :
        \/ hmaps[t].mask = 0
        \/ /\ BitAnd(hmaps[t].mask, hmaps[t].mask + 1) = 0
           /\ \E k \in 1 .. WordBits : hmaps[t].mask + 1 = 2 ^ k

\* One table resized to eight buckets and the other to four.
C4_Witness ==
    \E t, u \in Tables : hmaps[t].mask = 7 /\ hmaps[u].mask = 3

\* What hmap_at_position has done and is about to do in a traversal of table
\* "a" from (0,0) with no mutation: each node at most once so far, a node not
\* yet returned next while fewer than n are returned, none (and the cursor at
\* (0,0)) after n, and completed traversals that all list every node in the
\* same order.
TraversalOk ==
    LET n == hmaps["a"].n
        all == NodesOf(St, "a")
        r == hmap_at_position(St, "a", pos.bucket, pos.offset)
    IN  /\ Range(trav) \subseteq all
        /\ \A k, l \in DOMAIN trav : trav[k] = trav[l] => k = l
        /\ Len(trav) < n => r.node # NULL /\ r.node \notin Range(trav)
        /\ Len(trav) >= n => Len(trav) = n /\ Range(trav) = all /\ r = NoNode
        /\ \A k \in DOMAIN full : Len(full[k]) = n /\ Range(full[k]) = all
        /\ Len(full) = 2 => full[1] = full[2]
        /\ full # <<>> /\ trav = <<>> => pos = StartPos

\* C5: in a traversal from (0,0) with no mutation, hmap_at_position returns
\* every node of the table exactly once in its first n calls, then none,
\* leaving the cursor at (0,0); a second traversal returns the same order.
C5_FullTraversal == clean => TraversalOk

\* The same for the tables all of whose bucket indexes, and the index after
\* the last, fit the cursor's uint32_t.
C5_FullTraversalInRange ==
    clean /\ hmaps["a"].mask + 1 < 2 ^ CursorBits => TraversalOk

\* C6: in every reachable state, a second hmap_expand (hmap_shrink,
\* hmap_reserve with the same count) right after the first changes nothing:
\* not mask, n, the bucket array nor any chain.
C6_Idempotent ==
    \A t \in Tables :
        /\ LET e == hmap_expand(St, t) IN hmap_expand(e, t) = e
        /\ LET e == hmap_shrink(St, t) IN hmap_shrink(e, t) = e
        /\ \A k \in 0 .. MaxReserve :
              LET e == hmap_reserve(St, t, k) IN hmap_reserve(e, t, k) = e

\* A table whose first hmap_expand resizes it from the inline slot to four
\* buckets, beside one whose first hmap_shrink resizes it from eight buckets.
C6_Witness ==
    \E t, u \in Tables :
        /\ hmaps[t].mask = 0
        /\ hmaps[t].n = 2
        /\ hmap_expand(St, t).hmaps[t].mask = 3
        /\ hmaps[u].mask = 7
        /\ hmap_shrink(St, u).hmaps[u].mask < 7

\* The pointer cells of table t and of the nodes: its bucket slots and the
\* next field of every node in a table.
CellsOf(s, t) ==
    {SlotRef(s.hmaps[t].buckets, i) : i \in 0 .. s.hmaps[t].mask}
        \cup {NextRef(x) : x \in LiveIn(s)}

\* C7: in every reachable state, moving a node of a table to a free address
\* and calling hmap_node_moved replaces exactly one reference to the old
\* address by the new one: every chain is the chain before with the new
\* address in the old one's place, nothing refers to the old address, and n,
\* mask, the hash fields and every other link are as before.
C7_NodeMoved ==
    \A t \in Tables : \A old \in NodesOf(St, t) : \A new \in Addrs \ Live :
        LET s1 == MoveNode(St, old, new)
            s2 == hmap_node_moved(s1, t, old, new)
            changed == {r \in CellsOf(s1, t) : Deref(s2, r) # Deref(s1, r)}
        IN  /\ ~s2.aborted
            /\ \A i \in 0 .. hmaps[t].mask :
                  LET c == Chain(St, t, i)
                      c2 == Chain(s2, t, i)
                  IN  /\ Len(c2) = Len(c)
                      /\ \A k \in DOMAIN c :
                            c2[k] = IF c[k] = old THEN new ELSE c[k]
            /\ new \in Range(Chain(s2, t, BitAnd(s2.nodes[new].hash, hmaps[t].mask)))
            /\ \A r \in CellsOf(s2, t) : Deref(s2, r) # old
            /\ Cardinality(changed) = 1
            /\ \A r \in changed : Deref(s1, r) = old /\ Deref(s2, r) = new
            /\ s2.hmaps[t].n = hmaps[t].n
            /\ s2.hmaps[t].mask = hmaps[t].mask
            /\ s2.hmaps[t].buckets = hmaps[t].buckets
            /\ s2.heap = [b \in Blocks |->
                            [k \in DOMAIN heap[b] |->
                                IF heap[b][k] = old THEN new ELSE heap[b][k]]]
            /\ \A x \in Addrs : s2.nodes[x].hash = s1.nodes[x].hash
            /\ \A u \in Tables \ {t} : s2.hmaps[u] = hmaps[u]

\* A chain of two nodes in a four-bucket table whose second node can move:
\* the reference to repair is the next field of the first.
C7_Witness ==
    \E t \in Tables : \E new \in Addrs \ Live :
        /\ hmaps[t].mask = 3
        /\ Len(Chain(St, t, 3)) = 2
        /\ LET c == Chain(St, t, 3)
           IN  Chain(hmap_node_moved(MoveNode(St, c[2], new), t, c[2], new), t, 3)
                  = <<c[1], new>>

\* C8: in every reachable state, hmap_swap gives each table the other's mask,
\* n and per-bucket chains, and leaves each table whose mask is 0 with its
\* buckets reference on its own inline slot.
C8_Swap ==
    \A a, b \in Tables : a # b =>
        LET s2 == hmap_swap(St, a, b)
        IN  /\ s2.hmaps[a].mask = hmaps[b].mask
            /\ s2.hmaps[b].mask = hmaps[a].mask
            /\ s2.hmaps[a].n = hmaps[b].n
            /\ s2.hmaps[b].n = hmaps[a].n
            /\ \A i \in 0 .. hmaps[b].mask : Chain(s2, a, i) = Chain(St, b, i)
            /\ \A i \in 0 .. hmaps[a].mask : Chain(s2, b, i) = Chain(St, a, i)
            /\ \A t \in {a, b} :
                  s2.hmaps[t].mask = 0 => s2.hmaps[t].buckets = InlinePtr(t)
            /\ s2.nodes = nodes
            /\ s2.heap = heap

\* Two non-empty tables, one on its inline slot and one on a heap array.
C8_Witness ==
    \E a, b \in Tables :
        /\ hmaps[a].mask = 0
        /\ hmaps[a].n > 0
        /\ hmaps[a].buckets = InlinePtr(a)
        /\ hmaps[b].mask > 0
        /\ hmaps[b].n > 0
        /\ hmap_swap(St, a, b).hmaps[b].buckets = InlinePtr(b)

\* The values of the form 2^k - 1 in the word width.
Pow2Minus1 == {2 ^ k - 1 : k \in 0 .. WordBits}

\* C9: calc_mask(c) is the least 2^k - 1 that is >= c / 2, with 1 raised to
\* 3; so it is 0 exactly when c <= 1, and never 1.
C9_PlannerValue ==
    plan # <<>> =>
        LET fits == {x \in Pow2Minus1 : x >= cap \div 2}
            least == CHOOSE x \in fits : \A y \in fits : x <= y
        IN  /\ plan[1] = IF least = 1 THEN 3 ELSE least
            /\ plan[1] = 0 <=> cap <= 1
            /\ plan[1] # 1

\* The planner's result for a count whose half rounds to 1, raised to 3.
C9_Witness == cap = 3 /\ plan = <<3>>

\* The planner's result for each hmap_reserve target.
PlanOf == [c \in 0 .. MaxReserve |-> calc_mask(c)]

\* The mask of table t in memory s accommodates k elements: it is at least
\* the planned mask of every count up to k.
Accommodates(s, t, k) ==
    /\ 2 * (s.hmaps[t].mask + 1) >= k
    /\ \A c \in 0 .. k : PlanOf[c] <= s.hmaps[t].mask

\* C10: in every reachable state, hmap_reserve(k) leaves a mask with
\* 2 * (mask + 1) >= k that accommodates every count up to k; a mask that
\* accommodates k still does after an insertion or an hmap_expand, and while
\* n <= k hmap_expand does not resize.
C10_ReserveAccommodates ==
    \A t \in Tables :
        /\ \A k \in 0 .. MaxReserve : Accommodates(hmap_reserve(St, t, k), t, k)
        /\ \A a \in Addrs \ Live : \A h \in Hashes :
              LET r == hmap_insert_fast(St, t, a, h)
              IN  \A k \in 0 .. MaxReserve :
                     Accommodates(St, t, k) => Accommodates(r, t, k)
        /\ LET e == hmap_expand(St, t)
           IN  \A k \in 0 .. MaxReserve :
                  Accommodates(St, t, k) =>
                      /\ Accommodates(e, t, k)
                      /\ hmaps[t].n <= k => e = St

\* An empty table on its inline slot that hmap_reserve(MaxReserve) resizes,
\* beside a table that was reserved to eight buckets and then filled.
C10_Witness ==
    \E t, u \in Tables :
        /\ hmaps[t].mask = 0
        /\ hmaps[t].n = 0
        /\ hmap_reserve(St, t, MaxReserve).hmaps[t].mask > 0
        /\ hmaps[u].mask = 7
        /\ hmaps[u].n = MaxNodes

\* C11: in every reachable state, hmap_expand resizes exactly when
\* calc_mask(n) > mask, hmap_shrink exactly when calc_mask(n) < mask and
\* hmap_reserve(k) exactly when calc_mask(k) > mask, whatever n is; a resize
\* sets mask to the planned value.  So hmap_expand and hmap_reserve never
\* lower mask, hmap_shrink never raises it, and hmap_expand on a table with
\* mask 0 and n >= 2 leaves mask >= 3.
C11_ResizePolicy ==
    \A t \in Tables :
        LET h == hmaps[t]
            p == calc_mask(h.n)
            e == hmap_expand(St, t)
            k == hmap_shrink(St, t)
        IN  /\ ~e.aborted /\ ~k.aborted
            /\ (e # St) <=> (p > h.mask)
            /\ e # St => e.hmaps[t].mask = p
            /\ e.hmaps[t].mask >= h.mask
            /\ h.mask = 0 /\ h.n >= 2 => e.hmaps[t].mask >= 3
            /\ (k # St) <=> (p < h.mask)
            /\ k # St => k.hmaps[t].mask = p
            /\ k.hmaps[t].mask <= h.mask
            /\ \A c \in 0 .. MaxReserve :
                  LET r == hmap_reserve(St, t, c)
                  IN  /\ ~r.aborted
                      /\ (r # St) <=> (calc_mask(c) > h.mask)
                      /\ r # St => r.hmaps[t].mask = calc_mask(c)
                      /\ r.hmaps[t].mask >= h.mask

\* A table of two nodes on its inline slot, which hmap_expand resizes to four
\* buckets and hmap_reserve(MaxReserve) to more, beside an empty table with
\* four buckets, which hmap_shrink resizes to the inline slot and hmap_expand
\* leaves alone.
C11_Witness ==
    \E t, u \in Tables :
        /\ hmaps[t].mask = 0
        /\ hmaps[t].n = 2
        /\ hmap_expand(St, t).hmaps[t].mask = 3
        /\ hmap_reserve(St, t, MaxReserve).hmaps[t].mask > 3
        /\ hmaps[u].mask = 3
        /\ hmaps[u].n = 0
        /\ hmap_shrink(St, u).hmaps[u].mask = 0
        /\ hmap_expand(St, u) = St

\* The nodes that calls of hmap_at_position from cursor (b, o) return, with
\* no mutation, until one returns none; at most k of them.
RECURSIVE RestFrom(_, _, _, _, _)
RestFrom(s, t, b, o, k) ==
    IF k = 0 THEN <<>>
    ELSE LET r == hmap_at_position(s, t, b, o)
         IN  IF r.node = NULL THEN <<>>
             ELSE <<r.node>> \o RestFrom(s, t, r.bucket, r.offset, k - 1)

Count(q, x) == Cardinality({i \in DOMAIN q : q[i] = x})

\* Of a traversal from (0,0) that only mutations of buckets other than the
\* cursor's have interleaved, with mask unchanged: the calls still to come
\* return none after at most n nodes, and every node that has been in the
\* table since the traversal began has been returned once and is not among
\* those to come, or is exactly once among those to come.
WalkOk ==
    LET n == hmaps["a"].n
        rest == RestFrom(St, "a", pos.bucket, pos.offset, n + 1)
    IN  /\ Len(rest) <= n
        /\ \A x \in stay : Count(trav, x) + Count(rest, x) = 1

\* C12: in a traversal from (0,0) in which mask does not change and nodes are
\* inserted and removed, between calls, only in buckets other than the one the
\* cursor names, every node that stays in the table throughout is returned
\* exactly once before the traversal returns none.
C12_OtherBucketMutation == ok => WalkOk

\* The same for the tables all of whose bucket indexes, and the index after
\* the last, fit the cursor's uint32_t.
C12_OtherBucketMutationInRange ==
    ok /\ hmaps["a"].mask + 1 < 2 ^ CursorBits => WalkOk

\* C13: a mutation of the bucket the cursor is inside (offset > 0) breaks
\* exactly-once traversal.  In every state of a traversal from (0,0) not yet
\* mutated, with the cursor at offset o > 0 of a bucket with chain c: the
\* first o nodes of c are returned and the next is not; removing one of the
\* returned ones makes the next call pass over c[o + 1], which (the cursor
\* moving only forward) no later call returns either; and inserting a node at
\* the head of the bucket makes the next call return c[o], the node returned
\* last, again.
C13_SameBucketMutation ==
    clean /\ pos.offset > 0 /\ Len(trav) <= hmaps["a"].n =>
        LET h == hmaps["a"]
            b == pos.bucket
            o == pos.offset
            c == Chain(St, "a", b)
        IN  /\ o < Len(c)
            /\ \A k \in 1 .. o : c[k] \in Range(trav)
            /\ c[o + 1] \notin Range(trav)
            /\ \A k \in 1 .. o :
                  LET s2 == hmap_remove(St, "a", c[k])
                      r == hmap_at_position(s2, "a", b, o)
                  IN  /\ r.node # c[o + 1]
                      /\ o + 2 <= Len(c) => r.node = c[o + 2]
                      /\ h.mask + 1 < 2 ^ CursorBits =>
                            c[o + 1] \notin Range(RestFrom(s2, "a", b, o, h.n))
            /\ \A a \in Addrs \ Live : \A x \in Hashes :
                  BitAnd(x, h.mask) = b =>
                      LET s2 == hmap_insert_fast(St, "a", a, x)
                      IN  hmap_at_position(s2, "a", b, o).node = c[o]

\* A four-bucket table with a chain of two nodes whose first node has been
\* returned: removing it makes the traversal end without the second, and
\* inserting a node before it makes the next call return it again.
C13_Witness ==
    /\ clean
    /\ hmaps["a"].mask = 3
    /\ pos = [bucket |-> 3, offset |-> 1]
    /\ Len(trav) = 1
    /\ LET c == Chain(St, "a", 3)
       IN  /\ Len(c) = 2
           /\ trav = <<c[1]>>
           /\ RestFrom(St, "a", 3, 1, 2) = <<c[2]>>
           /\ RestFrom(hmap_remove(St, "a", c[1]), "a", 3, 1, 2) = <<>>
           /\ \E a \in Addrs \ Live :
                 RestFrom(hmap_insert_fast(St, "a", a, 7), "a", 3, 1, 3)
                     = <<c[1], c[2]>>

\* The values a cursor field can hold.
CursorVals == 0 .. (2 ^ CursorBits - 1)

\* The lowest-indexed non-empty bucket of table "a" with index above b, or
\* mask + 1 when there is none.
RECURSIVE NextNonEmpty(_)
NextNonEmpty(b) ==
    IF b + 1 > hmaps["a"].mask THEN hmaps["a"].mask + 1
    ELSE IF Chain(St, "a", b + 1) # <<>> THEN b + 1
    ELSE NextNonEmpty(b + 1)

\* What one call of hmap_at_position with cursor (b, o) is to return and to
\* store: the o-th node of bucket b if there is one, else the first node of
\* the next non-empty bucket, else none; the cursor after a node at position
\* p of bucket i is (i, p + 1) if the node has a successor and (i + 1, 0) if
\* not, and (0, 0) after none.
Expected(b, o) ==
    LET m == hmaps["a"].mask
        here == b <= m /\ o < Len(Chain(St, "a", b))
        i == IF here THEN b ELSE NextNonEmpty(b)
        p == IF here THEN o ELSE 0
    IN  IF i > m THEN NoNode
        ELSE LET c == Chain(St, "a", i)
             IN  IF p + 1 < Len(c)
                 THEN [node |-> c[p + 1], bucket |-> i, offset |-> p + 1]
                 ELSE [node |-> c[p + 1], bucket |-> i + 1, offset |-> 0]

\* C14: for every cursor value (b, o), one call of hmap_at_position returns
\* the o-th node of bucket b if it exists, otherwise the first node of the
\* lowest-indexed non-empty bucket above b, otherwise none; the cursor becomes
\* (i, p + 1) or (i + 1, 0) after a node at position p of bucket i and (0, 0)
\* after none; and the call leaves mask, n, buckets and chains as they are.
C14_CursorStep ==
    /\ [](\A b, o \in CursorVals :
             hmap_at_position(St, "a", b, o) = Expected(b, o))
    /\ [][AtPosition("a") => UNCHANGED <<hmaps, heap, nodes>>]_vars

\* The same for the cursor values and tables where the call returns no node
\* of the last bucket a uint32_t can index.
C14_CursorStepInRange ==
    /\ [](\A b, o \in CursorVals :
             Expected(b, o).bucket < 2 ^ CursorBits =>
                 hmap_at_position(St, "a", b, o) = Expected(b, o))
    /\ [][AtPosition("a") => UNCHANGED <<hmaps, heap, nodes>>]_vars

\* C15: in every reachable state, also after the struct has been relocated
\* and hmap_moved called, a table's buckets reference is its own inline slot
\* exactly when its mask is 0; with mask > 0 the bucket storage is a heap
\* array, never an inline slot.
C15_InlineIffMaskZero ==
    \A t \in Tables :
        /\ (hmaps[t].buckets = InlinePtr(t)) <=> (hmaps[t].mask = 0)
        /\ hmaps[t].mask > 0 =>
              /\ hmaps[t].buckets.tab = "heap"
              /\ Len(heap[hmaps[t].buckets.blk]) = hmaps[t].mask + 1

\* A table of two nodes on its inline slot beside a fresh location:
\* relocated there, it is bound to the inline slot of the new location and
\* keeps its chain.
C15_Witness ==
    \E a, b \in Tables :
        /\ hmaps[a].mask = 0
        /\ hmaps[a].n = 2
        /\ hmaps[b] = Fresh(b)
        /\ relocate(St, a, b).hmaps[b].buckets = InlinePtr(b)
        /\ Chain(relocate(St, a, b), b, 0) = Chain(St, a, 0)

\* The heap blocks that hold a bucket array.
Allocated(s) == {b \in Blocks : s.heap[b] # <<>>}

\* What a call on table t that takes memory s to s2 does to the heap when it
\* resizes: the array of t is freed if it is a heap array, the array
\* installed (if any) is a block that was free, and nothing else changes.
FreesOldOnly(s, s2, t) ==
    LET old == s.hmaps[t].buckets
        new == s2.hmaps[t].buckets
        gone == IF old.tab = "heap" THEN {old.blk} ELSE {}
        made == IF new.tab = "heap" THEN {new.blk} ELSE {}
    IN  /\ ~s2.aborted
        /\ made \cap Allocated(s) = {}
        /\ Allocated(s2) = (Allocated(s) \ gone) \cup made
        /\ \A b \in Allocated(s) \ gone : s2.heap[b] = s.heap[b]
        /\ new.tab = "heap" <=> s2.hmaps[t].mask > 0

C17_AssertsNeverFail ==
    plan # <<>> =>
        /\ ResizeAsserts(plan[1])
        /\ plan[1] \in Pow2Minus1
        /\ plan[1] < 2 ^ WordBits - 1

\* The greatest count of the word width, whose planned mask is the greatest
\* planned at all, half of SIZE_MAX.
C17_Witness ==
    /\ cap = 2 ^ WordBits - 1
    /\ plan = <<2 ^ (WordBits - 1) - 1>>

\* C18: in every reachable state, hmap_clear on a table with n > 0 leaves
\* every one of its mask + 1 slots null and n = 0, with mask, the buckets
\* reference and the nodes' memory as before; on a table with n = 0 it changes
\* nothing, and all slots of such a table are null already; so after
\* hmap_clear a cursor traversal from (0,0) returns no node.
C18_Clear ==
    \A t \in Tables :
        LET h == hmaps[t]
            c == hmap_clear(St, t)
        IN  /\ h.n = 0 => c = St
            /\ h.n = 0 => \A i \in 0 .. h.mask : ReadSlot(St, h.buckets, i) = NULL
            /\ \A i \in 0 .. h.mask : ReadSlot(c, c.hmaps[t].buckets, i) = NULL
            /\ c.hmaps[t] = [h EXCEPT !.n = 0, !.one = NULL]
            /\ c.nodes = nodes
            /\ \A b \in Blocks : Len(c.heap[b]) = Len(heap[b])
            /\ \A u \in Tables \ {t} :
                  /\ c.hmaps[u] = hmaps[u]
                  /\ \A i \in 0 .. hmaps[u].mask : Chain(c, u, i) = Chain(St, u, i)
            /\ hmap_at_position(c, t, 0, 0) = NoNode

\* A table of eight buckets with nodes in its first and its last bucket.
C18_Witness ==
    \E t \in Tables :
        /\ hmaps[t].mask = 7
        /\ Chain(St, t, 0) # <<>>
        /\ Chain(St, t, 7) # <<>>
        /\ hmap_clear(St, t).hmaps[t].buckets = hmaps[t].buckets
        /\ NodesOf(hmap_clear(St, t), t) = {}

\* The walk of hmap_node_moved for old address old in bucket i of table t.
WalkIn(t, i, old) == walk(St, SlotRef(hmaps[t].buckets, i), old, MaxNodes + 1)

\* C19 as claimed: a walk for an address that is in the chain ends after at
\* most as many steps as the chain has nodes, and a walk for an address that
\* is not in the chain never ends.
C19_AbsentRunsUnbounded ==
    \A t \in Tables : \A i \in 0 .. hmaps[t].mask : \A old \in Addrs :
        LET c == Chain(St, t, i)
            w == WalkIn(t, i, old)
        IN  IF old \in Range(c)
            THEN w.end = "found" /\ w.steps <= Len(c)
            ELSE w.end = "walking"

\* C19: a walk for an address that is in the chain ends there, after as many
\* steps as nodes precede it, fewer than the chain has; a walk for an address
\* that is not in the chain takes as many steps as the chain has nodes and is
\* then at the null that ends the chain: its next step reads through a null
\* pointer, which is undefined behaviour, not an endless walk.
C19_WalkEnds ==
    \A t \in Tables : \A i \in 0 .. hmaps[t].mask : \A old \in Addrs :
        LET c == Chain(St, t, i)
            w == WalkIn(t, i, old)
        IN  IF old \in Range(c)
            THEN /\ w.end = "found"
                 /\ w.steps < Len(c)
                 /\ c[w.steps + 1] = old
            ELSE /\ w.end = "null"
                 /\ w.steps = Len(c)

\* A chain of two nodes in a four-bucket table and an address that is not in
\* it: the walk for the second node takes one step, the walk for the absent
\* address two.
C19_Witness ==
    \E t \in Tables : \E old \in Addrs :
        LET c == Chain(St, t, 3)
        IN  /\ hmaps[t].mask = 3
            /\ Len(c) = 2
            /\ old \notin Range(c)
            /\ WalkIn(t, 3, c[2]) = [end |-> "found", steps |-> 1]
            /\ WalkIn(t, 3, old) = [end |-> "null", steps |-> 2]

====
